---- MODULE Spec2Model ----
(***************************************************************************)
(* Model of femtoUniversePairTaskTrackTrackSpherHarMultKtExtended: the     *)
(* event-mixing loop, the event binning, and the n-sigma particle          *)
(* admission.                                                              *)
(*                                                                         *)
(* Floating-point quantities are exact fixed-point integers:               *)
(*   momentum p        in units of 0.05 GeV/c  (0.3 = 6, 0.45 = 9,         *)
(*                                              0.5 = 10, 0.55 = 11,       *)
(*                                              1.5 = 30)                  *)
(*   n-sigma           in units of 1 sigma                                 *)
(*   pt                in units of 0.01 GeV/c  (0.14 = 14, 1.5 = 150)      *)
(*   eta               in units of 0.1         (0.8 = 8)                   *)
(*   vertex z, multiplicity, magnetic field: integers                      *)
(***************************************************************************)
EXTENDS Integers, Sequences, FiniteSets, TLC

VARIABLES
    conf,                  \* the Configurable values of the task
    fdCollisions,          \* the FDCollisions table of the data frame, before the event filter
    cols,                  \* the filtered collision table the process functions are given
    pc,                    \* which process function is running
    combIter,              \* the selfCombinations iterator of processMixedEvent: the pairs still to come
    mePairs,               \* the (collision1, collision2) pairs the iterator has delivered so far
    hMECollisionBins,      \* MixQaRegistry "MixingQA/hMECollisionBins": the filled values
    hSECollisionBins,      \* MixQaRegistry "MixingQA/hSECollisionBins": the filled values
    mixedEventMultCont,    \* fills of the opposite-sign mixed-event container
    mixedEventMultContPP,  \* fills of the positive same-sign mixed-event container
    mixedEventMultContMM,  \* fills of the negative same-sign mixed-event container
    seCol,                 \* the row of the collision the running per-collision process function receives next
    pidCall,               \* the last call of IsParticleNSigma: its arguments and its outcome
    evParts,               \* which tracks of TrackParts the collisions of the table hold
    sePairs,               \* the (p1, p2) candidates the loops of doSameEvent have visited so far
    sameEventMultCont,     \* fills of the opposite-sign same-event container
    sameEventMultContPP,   \* fills of the positive same-sign same-event container
    sameEventMultContMM,   \* fills of the negative same-sign same-event container
    covCalls               \* the calls of processCov so far, with the fill_mult_kT_Cov calls of each

vars == <<conf, fdCollisions, cols, pc, combIter, mePairs, hMECollisionBins, hSECollisionBins,
          mixedEventMultCont, mixedEventMultContPP, mixedEventMultContMM, seCol, pidCall,
          evParts, sePairs, sameEventMultCont, sameEventMultContPP, sameEventMultContMM,
          covCalls>>

mixedConts == <<mixedEventMultCont, mixedEventMultContPP, mixedEventMultContMM>>

sameConts == <<sameEventMultCont, sameEventMultContPP, sameEventMultContMM>>

(***************************************************************************)
(* Bounds of the model.                                                    *)
(***************************************************************************)
NumCols == 4          \* longest collision table of Spec
NumColsWindow == 7    \* longest collision table of SpecWindow
MaxMom == 31          \* largest momentum of SpecPID (1.55 GeV/c)
MaxNs == 4            \* largest |n-sigma| of SpecPID (4 sigma)
ZMax == 4             \* largest |vertex z| of SpecBin
MultMax == 5          \* largest multiplicity of SpecBin
NumColsFrame == 2     \* longest collision table of SpecFrame
NumColsConfig == 2    \* longest FDCollisions table of SpecConfig
NumColsMC == 2        \* longest FDCollisions table of SpecMC

Abs(x) == IF x < 0 THEN -x ELSE x

Min(a, b) == IF a < b THEN a ELSE b

(***************************************************************************)
(* Configuration.                                                          *)
(***************************************************************************)
ConfEtaMax == 8
ConfChargePart1 == 1
ConfPtLowPart1 == 14
ConfPtHighPart1 == 150
ConfChargePart2 == -1
ConfPtLowPart2 == 14
ConfPtHighPart2 == 150
ConfV0MLow == 0
ConfV0MHigh == 25000
ConfIsCPR == conf.ConfIsCPR
ConfCPRdeltaPhiCutMax == conf.ConfCPRdeltaPhiCutMax
ConfCPRdeltaPhiCutMin == conf.ConfCPRdeltaPhiCutMin
ConfCPRdeltaEtaCutMax == conf.ConfCPRdeltaEtaCutMax
ConfCPRdeltaEtaCutMin == conf.ConfCPRdeltaEtaCutMin
ConfLMax == conf.ConfLMax

\* The mixing axes (ConfigurableAxis, VARIABLE_WIDTH edges), configured small.
ConfVtxBins == <<-3, -1, 1, 3>>
ConfMultBins == <<0, 2, 4>>

\* The Configurable defaults of the source.
DefaultConf ==
    [ConfNEventsMix |-> 5,
     cfgProcessPM |-> FALSE, cfgProcessPP |-> TRUE, cfgProcessMM |-> TRUE,
     ConfPDGCodePartOne |-> 211, ConfPDGCodePartTwo |-> 211,
     ConfTOFPtMin |-> 10, ConfNsigmaTPC |-> 3, ConfNsigmaCombined |-> 3,
     ConfLMax |-> 2, cfgProcessKtMt3DCF |-> FALSE,
     ConfIsCPR |-> TRUE,
     ConfCPRdeltaPhiCutMax |-> 0, ConfCPRdeltaPhiCutMin |-> 0,
     ConfCPRdeltaEtaCutMax |-> 0, ConfCPRdeltaEtaCutMin |-> 0]

(***************************************************************************)
(* Particle admission (n-sigma PID).                                       *)
(***************************************************************************)
\* TMath::Hypot(a, b) < c for a positive cut c, without the square root.
HypotLess(a, b, c) == c > 0 /\ a * a + b * b < c * c

\* Mutant of IsProtonNSigma: the TPC-only region reaches up to ConfTOFPtMin included.
IsProtonNSigmaInclusive(mom, nsigmaTPCPr, nsigmaTOFPr) ==
    IF mom <= conf.ConfTOFPtMin
    THEN Abs(nsigmaTPCPr) < conf.ConfNsigmaTPC
    ELSE HypotLess(nsigmaTOFPr, nsigmaTPCPr, conf.ConfNsigmaCombined)

IsProtonNSigma(mom, nsigmaTPCPr, nsigmaTOFPr) ==
    IF mom < conf.ConfTOFPtMin
    THEN Abs(nsigmaTPCPr) < conf.ConfNsigmaTPC
    ELSE HypotLess(nsigmaTOFPr, nsigmaTPCPr, conf.ConfNsigmaCombined)

\* Mutant of IsKaonNSigma: the configurable two-region rule applied to kaons.
IsKaonNSigmaTwoRegion(mom, nsigmaTPCK, nsigmaTOFK) ==
    IF mom < conf.ConfTOFPtMin
    THEN Abs(nsigmaTPCK) < conf.ConfNsigmaTPC
    ELSE HypotLess(nsigmaTOFK, nsigmaTPCK, conf.ConfNsigmaCombined)

\* Mutant of IsKaonNSigma: the last band closed at 1.5.
IsKaonNSigmaClosedBand(mom, nsigmaTPCK, nsigmaTOFK) ==
    IF mom < 6 THEN Abs(nsigmaTPCK) < 3
    ELSE IF mom < 9 THEN Abs(nsigmaTPCK) < 2
    ELSE IF mom < 11 THEN Abs(nsigmaTPCK) < 1
    ELSE IF mom < 30 THEN Abs(nsigmaTOFK) < 3 /\ Abs(nsigmaTPCK) < 3
    ELSE Abs(nsigmaTOFK) < 2 /\ Abs(nsigmaTPCK) < 3

IsKaonNSigma(mom, nsigmaTPCK, nsigmaTOFK) ==
    IF mom < 6 THEN Abs(nsigmaTPCK) < 3
    ELSE IF mom < 9 THEN Abs(nsigmaTPCK) < 2
    ELSE IF mom < 11 THEN Abs(nsigmaTPCK) < 1
    ELSE IF mom < 30 THEN Abs(nsigmaTOFK) < 3 /\ Abs(nsigmaTPCK) < 3
    ELSE IF mom > 30 THEN Abs(nsigmaTOFK) < 2 /\ Abs(nsigmaTPCK) < 3
    ELSE FALSE

\* Mutant of IsPionNSigma: the combined cut at every momentum.
IsPionNSigmaCombinedOnly(mom, nsigmaTPCPi, nsigmaTOFPi) ==
    HypotLess(nsigmaTOFPi, nsigmaTPCPi, conf.ConfNsigmaCombined)

IsPionNSigma(mom, nsigmaTPCPi, nsigmaTOFPi) ==
    IF mom < conf.ConfTOFPtMin
    THEN Abs(nsigmaTPCPi) < conf.ConfNsigmaTPC
    ELSE HypotLess(nsigmaTOFPi, nsigmaTPCPi, conf.ConfNsigmaCombined)

\* Mutant of SpeciesNSigma: the default case admits.
SpeciesNSigmaDefaultTrue(pdg, mom, nsigmaTPCPr, nsigmaTOFPr, nsigmaTPCPi, nsigmaTOFPi, nsigmaTPCK, nsigmaTOFK) ==
    IF pdg = 2212 \/ pdg = -2212 THEN IsProtonNSigma(mom, nsigmaTPCPr, nsigmaTOFPr)
    ELSE IF pdg = 211 \/ pdg = -211 THEN IsPionNSigma(mom, nsigmaTPCPi, nsigmaTOFPi)
    ELSE IF pdg = 321 \/ pdg = -321 THEN IsKaonNSigma(mom, nsigmaTPCK, nsigmaTOFK)
    ELSE TRUE

\* The species switch of IsParticleNSigma on one configured PDG code.
SpeciesNSigma(pdg, mom, nsigmaTPCPr, nsigmaTOFPr, nsigmaTPCPi, nsigmaTOFPi, nsigmaTPCK, nsigmaTOFK) ==
    IF pdg = 2212 \/ pdg = -2212 THEN IsProtonNSigma(mom, nsigmaTPCPr, nsigmaTOFPr)
    ELSE IF pdg = 211 \/ pdg = -211 THEN IsPionNSigma(mom, nsigmaTPCPi, nsigmaTOFPi)
    ELSE IF pdg = 321 \/ pdg = -321 THEN IsKaonNSigma(mom, nsigmaTPCK, nsigmaTOFK)
    ELSE FALSE

\* The value IsParticleNSigma returns.
IsParticleNSigma(particle_number, mom, nsigmaTPCPr, nsigmaTOFPr, nsigmaTPCPi, nsigmaTOFPi, nsigmaTPCK, nsigmaTOFK) ==
    IF particle_number = 1
    THEN SpeciesNSigma(conf.ConfPDGCodePartOne, mom, nsigmaTPCPr, nsigmaTOFPr,
                       nsigmaTPCPi, nsigmaTOFPi, nsigmaTPCK, nsigmaTOFK)
    ELSE IF particle_number = 2
    THEN SpeciesNSigma(conf.ConfPDGCodePartTwo, mom, nsigmaTPCPr, nsigmaTOFPr,
                       nsigmaTPCPi, nsigmaTOFPi, nsigmaTPCK, nsigmaTOFK)
    ELSE FALSE

\* Whether IsParticleNSigma reaches LOGF(fatal, ...).
IsParticleNSigmaFatal(particle_number) == particle_number # 1 /\ particle_number # 2

\* IsParticleNSigma on a particle of the table, as doSameEvent and doMixedEvent call it.
PartNSigma(particle_number, part) ==
    IsParticleNSigma(particle_number, part.p,
                     part.nsigmaTPC.Proton, part.nsigmaTOF.Proton,
                     part.nsigmaTPC.Pion, part.nsigmaTOF.Pion,
                     part.nsigmaTPC.Kaon, part.nsigmaTOF.Kaon)

(***************************************************************************)
(* Event binning and the event-pair generator.                             *)
(***************************************************************************)
\* Mutant of outsider: a value no bin takes, so that no category is left out.
outsiderNone == 0 - 2

outsider == -1
categoryNeighbours == 5

\* The 0-based interval [edges[k], edges[k+1]) of one axis that holds v, and -1 for
\* an underflow or an overflow (the policy is built with ignoreOverflows = true).
AxisBin(edges, v) ==
    IF v < edges[1] \/ ~(v < edges[Len(edges)])
    THEN -1
    ELSE (CHOOSE k \in 1..(Len(edges) - 1) :
              /\ v < edges[k + 1]
              /\ \A m \in 1..k : ~(v < edges[m])) - 1

\* Mutant of getBin: the two axis indices added, not combined by a product.
getBinSum(posZ, multNtr) ==
    LET i == AxisBin(ConfVtxBins, posZ)
        j == AxisBin(ConfMultBins, multNtr)
    IN  IF i = -1 \/ j = -1 THEN -1 ELSE i + j

\* colBinning.getBin({posZ, multNtr})
getBin(posZ, multNtr) ==
    LET i == AxisBin(ConfVtxBins, posZ)
        j == AxisBin(ConfMultBins, multNtr)
    IN  IF i = -1 \/ j = -1 THEN -1 ELSE i + j * (Len(ConfVtxBins) - 1)

colBin(col) == getBin(col.posZ, col.multNtr)

\* The rows of table t whose bin is b, in table order (one category of the grouped table).
CategoryRows(t, b) ==
    SelectSeq([i \in 1..Len(t) |-> i], LAMBDA i : colBin(t[i]) = b)

\* The pairs whose first element is the a-th row of category r: the sliding window.
WindowPairs(r, a) ==
    [d \in 1..Min(categoryNeighbours, Len(r) - a) |-> <<r[a], r[a + d]>>]

RECURSIVE CategoryPairs(_, _)
CategoryPairs(r, a) ==
    IF a >= Len(r) THEN <<>> ELSE WindowPairs(r, a) \o CategoryPairs(r, a + 1)

RECURSIVE BlockPairs(_, _)
BlockPairs(t, b) ==
    IF b >= (Len(ConfVtxBins) - 1) * (Len(ConfMultBins) - 1)
    THEN <<>>
    ELSE (IF b = outsider THEN <<>> ELSE CategoryPairs(CategoryRows(t, b), 1))
         \o BlockPairs(t, b + 1)

\* Mutant of selfCombinations: neighbouring rows paired whatever their bins.
selfCombinationsUnbinned(t) == [n \in 1..(Len(t) - 1) |-> <<n, n + 1>>]

\* soa::selfCombinations(colBinning, 5, -1, cols, cols): the row pairs, in iteration order.
selfCombinations(t) == BlockPairs(t, -1)

(***************************************************************************)
(* Particle partitions and pair filters.                                   *)
(***************************************************************************)
NSigmaOf(pr, pi, ka) == [Proton |-> pr, Pion |-> pi, Kaon |-> ka]

\* The tracks a collision can hold: positive and negative tracks that pass the pion
\* n-sigma selection (1, 2, 4, 5), a positive track that fails it (3), and tracks that
\* every species selection admits but that are on or outside a limit of the acceptance:
\* pt on the low limit (6), pt on the high limit (7), |eta| on ConfEtaMax (8), not a
\* track (9), pt and |eta| on their limits (10), neither charge (11).
TrackParts ==
    << [partType |-> "kTrack", sign |-> 1, pt |-> 50, eta |-> 1, phi |-> 3, p |-> 8,
        nsigmaTPC |-> NSigmaOf(9, 2, 9), nsigmaTOF |-> NSigmaOf(9, 0, 9)],
       [partType |-> "kTrack", sign |-> -1, pt |-> 60, eta |-> -2, phi |-> 1, p |-> 12,
        nsigmaTPC |-> NSigmaOf(9, 1, 9), nsigmaTOF |-> NSigmaOf(9, -2, 9)],
       [partType |-> "kTrack", sign |-> 1, pt |-> 70, eta |-> 3, phi |-> 5, p |-> 8,
        nsigmaTPC |-> NSigmaOf(1, 5, 1), nsigmaTOF |-> NSigmaOf(0, 0, 0)],
       [partType |-> "kTrack", sign |-> 1, pt |-> 40, eta |-> -4, phi |-> 2, p |-> 12,
        nsigmaTPC |-> NSigmaOf(9, -1, 9), nsigmaTOF |-> NSigmaOf(9, 1, 9)],
       [partType |-> "kTrack", sign |-> -1, pt |-> 30, eta |-> 5, phi |-> 4, p |-> 8,
        nsigmaTPC |-> NSigmaOf(9, -2, 9), nsigmaTOF |-> NSigmaOf(9, 9, 9)],
       [partType |-> "kTrack", sign |-> 1, pt |-> 14, eta |-> 0, phi |-> 0, p |-> 8,
        nsigmaTPC |-> NSigmaOf(0, 0, 0), nsigmaTOF |-> NSigmaOf(0, 0, 0)],
       [partType |-> "kTrack", sign |-> 1, pt |-> 150, eta |-> 0, phi |-> 0, p |-> 8,
        nsigmaTPC |-> NSigmaOf(0, 0, 0), nsigmaTOF |-> NSigmaOf(0, 0, 0)],
       [partType |-> "kTrack", sign |-> 1, pt |-> 50, eta |-> 8, phi |-> 0, p |-> 8,
        nsigmaTPC |-> NSigmaOf(0, 0, 0), nsigmaTOF |-> NSigmaOf(0, 0, 0)],
       [partType |-> "kV0", sign |-> 1, pt |-> 50, eta |-> 0, phi |-> 0, p |-> 8,
        nsigmaTPC |-> NSigmaOf(0, 0, 0), nsigmaTOF |-> NSigmaOf(0, 0, 0)],
       [partType |-> "kTrack", sign |-> -1, pt |-> 150, eta |-> -8, phi |-> 0, p |-> 8,
        nsigmaTPC |-> NSigmaOf(0, 0, 0), nsigmaTOF |-> NSigmaOf(0, 0, 0)],
       [partType |-> "kTrack", sign |-> 0, pt |-> 50, eta |-> 0, phi |-> 0, p |-> 8,
        nsigmaTPC |-> NSigmaOf(0, 0, 0), nsigmaTOF |-> NSigmaOf(0, 0, 0)] >>

\* The tracks of the collisions of the mixing, binning and admission specifications.
DefaultParts == {1, 2, 3}

\* The tracks inside the acceptance.
FrameParts == 1..5

\* Filter trackAdditionalfilter
trackAdditionalfilter(part) == Abs(part.eta) < ConfEtaMax

\* Mutant of InPartsOne: the low pt limit included.
InPartsOneInclusive(part) ==
    /\ trackAdditionalfilter(part)
    /\ part.partType = "kTrack"
    /\ part.sign = ConfChargePart1
    /\ part.pt < ConfPtHighPart1
    /\ part.pt >= ConfPtLowPart1

InPartsOne(part) ==
    /\ trackAdditionalfilter(part)
    /\ part.partType = "kTrack"
    /\ part.sign = ConfChargePart1
    /\ part.pt < ConfPtHighPart1
    /\ part.pt > ConfPtLowPart1

InPartsTwo(part) ==
    /\ trackAdditionalfilter(part)
    /\ part.partType = "kTrack"
    /\ part.sign = ConfChargePart2
    /\ part.pt < ConfPtHighPart2
    /\ part.pt > ConfPtLowPart2

\* A particle of the table is named by its collision row and its place in that collision.
Part(ref) == TrackParts[ref.idx]

partRefs(c) ==
    SelectSeq([k \in 1..Len(TrackParts) |-> [col |-> c, idx |-> k]],
              LAMBDA ref : ref.idx \in evParts)

\* partsOne->sliceByCached(fdCollisionId, collision.globalIndex(), cache)
partsOne(c) == SelectSeq(partRefs(c), LAMBDA ref : InPartsOne(Part(ref)))

partsTwo(c) == SelectSeq(partRefs(c), LAMBDA ref : InPartsTwo(Part(ref)))

\* combinations(CombinationsFullIndexPolicy(A, B)): every (a, b), a-major.
CombinationsFullIndexPolicy(A, B) ==
    [n \in 1..(Len(A) * Len(B)) |->
        <<A[((n - 1) \div Len(B)) + 1], B[((n - 1) % Len(B)) + 1]>>]

\* pairCloseRejection.isClosePair
isClosePair(p1, p2) ==
    LET deta == p1.eta - p2.eta
        dphi == p1.phi - p2.phi
    IN  /\ dphi > ConfCPRdeltaPhiCutMin /\ dphi < ConfCPRdeltaPhiCutMax
        /\ deta > ConfCPRdeltaEtaCutMin /\ deta < ConfCPRdeltaEtaCutMax

\* The pairs doMixedEvent fills into the container of its ContType, in order.
doMixedEvent(groupPartsOne, groupPartsTwo, multCol) ==
    LET accepted(pr) ==
            /\ PartNSigma(2, Part(pr[1]))
            /\ PartNSigma(2, Part(pr[2]))
            /\ ~(ConfIsCPR /\ isClosePair(Part(pr[1]), Part(pr[2])))
        kept == SelectSeq(CombinationsFullIndexPolicy(groupPartsOne, groupPartsTwo), accepted)
    IN  [n \in 1..Len(kept) |->
            [p1 |-> kept[n][1], p2 |-> kept[n][2], max_l_val |-> 2, mult |-> multCol]]

(***************************************************************************)
(* doSameEvent.                                                            *)
(***************************************************************************)
\* The index pairs (i, j) of two tables of n and m rows, i-major.
IndexPairs(n, m) == [k \in 1..(n * m) |-> <<((k - 1) \div m) + 1, ((k - 1) % m) + 1>>]

\* Mutant of CombinationsStrictlyUpperIndexPolicy: the diagonal included.
CombinationsUpperIndexPolicy(A, B) ==
    LET upper == SelectSeq(IndexPairs(Len(A), Len(B)), LAMBDA ij : ij[1] <= ij[2])
    IN  [n \in 1..Len(upper) |-> <<A[upper[n][1]], B[upper[n][2]]>>]

\* combinations(CombinationsStrictlyUpperIndexPolicy(A, B)): every (A[i], B[j]) with
\* i < j, i-major.
CombinationsStrictlyUpperIndexPolicy(A, B) ==
    LET upper == SelectSeq(IndexPairs(Len(A), Len(B)), LAMBDA ij : ij[1] < ij[2])
    IN  [n \in 1..Len(upper) |-> <<A[upper[n][1]], B[upper[n][2]]>>]

\* pairCleaner.isCleanPair for two tracks: the two are not one and the same track.
isCleanPair(p1, p2) == p1 # p2

\* The values randgen->Rndm() takes here, in quarters: 0.25, 0.5 and 0.75.
RandValues == {1, 2, 3}

\* Mutant of SameEventCandidates: the full cross product in every channel.
SameEventCandidatesFullCross(groupPartsOne, groupPartsTwo, ContType) ==
    CombinationsFullIndexPolicy(groupPartsOne, groupPartsTwo)

\* The (p1, p2) the pair loop of doSameEvent visits, in order.
SameEventCandidates(groupPartsOne, groupPartsTwo, ContType) ==
    IF ContType = 1
    THEN CombinationsFullIndexPolicy(groupPartsOne, groupPartsTwo)
    ELSE CombinationsStrictlyUpperIndexPolicy(groupPartsOne, groupPartsOne)

\* Mutant of SameEventAccepted: no close-pair rejection.
SameEventAcceptedNoCPR(ContType, pr) ==
    /\ PartNSigma(IF ContType = 1 THEN 1 ELSE 2, Part(pr[1]))
    /\ PartNSigma(2, Part(pr[2]))
    /\ isCleanPair(pr[1], pr[2])

\* The tests of the loop body that end in "continue" when they fail.
SameEventAccepted(ContType, pr) ==
    /\ PartNSigma(IF ContType = 1 THEN 1 ELSE 2, Part(pr[1]))
    /\ PartNSigma(2, Part(pr[2]))
    /\ ~(ConfIsCPR /\ isClosePair(Part(pr[1]), Part(pr[2])))
    /\ isCleanPair(pr[1], pr[2])

SameEventKept(groupPartsOne, groupPartsTwo, ContType) ==
    SelectSeq(SameEventCandidates(groupPartsOne, groupPartsTwo, ContType),
              LAMBDA pr : SameEventAccepted(ContType, pr))

\* Mutant of SameSignFills: the second branch tests rand < 0.5.
SameSignFillsStrict(pr, multCol, rand) ==
    IF rand > 2
    THEN << [p1 |-> pr[1], p2 |-> pr[2], max_l_val |-> 2, mult |-> multCol,
             rand |-> rand] >>
    ELSE IF rand < 2
    THEN << [p1 |-> pr[2], p2 |-> pr[1], max_l_val |-> 2, mult |-> multCol,
             rand |-> rand] >>
    ELSE << >>

\* The fill_mult_NumDen calls of one accepted same-sign pair: "if (rand > 0.5) ...
\* else if (rand <= 0.5) ...".
SameSignFills(pr, multCol, rand) ==
    IF rand > 2
    THEN << [p1 |-> pr[1], p2 |-> pr[2], max_l_val |-> 2, mult |-> multCol,
             rand |-> rand] >>
    ELSE IF rand <= 2
    THEN << [p1 |-> pr[2], p2 |-> pr[1], max_l_val |-> 2, mult |-> multCol,
             rand |-> rand] >>
    ELSE << >>

RECURSIVE SameEventFills(_, _, _, _, _)
SameEventFills(kept, multCol, ContType, draws, n) ==
    IF n > Len(kept) THEN << >>
    ELSE (IF ContType = 1
          THEN << [p1 |-> kept[n][1], p2 |-> kept[n][2], max_l_val |-> 2,
                   mult |-> multCol] >>
          ELSE SameSignFills(kept[n], multCol, draws[n]))
         \o SameEventFills(kept, multCol, ContType, draws, n + 1)

\* The fills doSameEvent makes into the container of its ContType, in order; draws[n] is
\* the random number drawn for the n-th accepted pair.
doSameEvent(groupPartsOne, groupPartsTwo, multCol, ContType, draws) ==
    SameEventFills(SameEventKept(groupPartsOne, groupPartsTwo, ContType),
                   multCol, ContType, draws, 1)

\* The candidates of one doSameEvent call, as the loop visits them.
SameEventVisits(c, groupPartsOne, groupPartsTwo, ContType) ==
    LET cand == SameEventCandidates(groupPartsOne, groupPartsTwo, ContType)
    IN  [n \in 1..Len(cand) |->
            [col |-> c, ContType |-> ContType, p1 |-> cand[n][1], p2 |-> cand[n][2]]]

(***************************************************************************)
(* processMixedEvent: one iteration of its loop per step.                  *)
(***************************************************************************)
\* Mutant of magFieldDiffers: the test left out.
magFieldNeverDiffers(collision1, collision2) == FALSE

\* Mutant of magFieldDiffers: a test of the polarity only.
magFieldSignDiffers(collision1, collision2) ==
    (collision1.magField > 0) # (collision2.magField > 0)

\* the test "magFieldTesla1 != magFieldTesla2"
magFieldDiffers(collision1, collision2) == collision1.magField # collision2.magField

\* The loop body up to the magnetic-field test.
MixedEventHead(pair) ==
    /\ hMECollisionBins' = Append(hMECollisionBins,
                                  getBin(cols[pair[1]].posZ, cols[pair[1]].multNtr))
    /\ combIter' = Tail(combIter)
    /\ UNCHANGED <<conf, fdCollisions, cols, pc, hSECollisionBins, seCol, pidCall,
                   evParts, sePairs, sameConts, covCalls>>

MixedEventSkip ==
    /\ pc = "mixed"
    /\ combIter # <<>>
    /\ LET pair == Head(combIter)
       IN  /\ magFieldDiffers(cols[pair[1]], cols[pair[2]])
           /\ MixedEventHead(pair)
           /\ mePairs' = Append(mePairs, [c1 |-> pair[1], c2 |-> pair[2], skipped |-> TRUE])
           /\ UNCHANGED mixedConts

\* Mutant of MixedEventFill: the mixed pairs filled into the same-event containers.
MixedEventFillNumerator ==
    /\ pc = "mixed"
    /\ combIter # <<>>
    /\ LET pair == Head(combIter)
           multiplicityCol == cols[pair[1]].multNtr
       IN  /\ ~magFieldDiffers(cols[pair[1]], cols[pair[2]])
           /\ hMECollisionBins' = Append(hMECollisionBins,
                                         getBin(cols[pair[1]].posZ, cols[pair[1]].multNtr))
           /\ combIter' = Tail(combIter)
           /\ mePairs' = Append(mePairs, [c1 |-> pair[1], c2 |-> pair[2], skipped |-> FALSE])
           /\ sameEventMultCont' =
                 IF conf.cfgProcessPM
                 THEN sameEventMultCont
                      \o doMixedEvent(partsOne(pair[1]), partsTwo(pair[2]), multiplicityCol)
                 ELSE sameEventMultCont
           /\ sameEventMultContPP' =
                 IF conf.cfgProcessPP
                 THEN sameEventMultContPP
                      \o doMixedEvent(partsOne(pair[1]), partsOne(pair[2]), multiplicityCol)
                 ELSE sameEventMultContPP
           /\ sameEventMultContMM' =
                 IF conf.cfgProcessMM
                 THEN sameEventMultContMM
                      \o doMixedEvent(partsTwo(pair[1]), partsTwo(pair[2]), multiplicityCol)
                 ELSE sameEventMultContMM
           /\ UNCHANGED <<conf, fdCollisions, cols, pc, hSECollisionBins, seCol, pidCall,
                          evParts, sePairs, mixedConts, covCalls>>

MixedEventFill ==
    /\ pc = "mixed"
    /\ combIter # <<>>
    /\ LET pair == Head(combIter)
           multiplicityCol == cols[pair[1]].multNtr
       IN  /\ ~magFieldDiffers(cols[pair[1]], cols[pair[2]])
           /\ MixedEventHead(pair)
           /\ mePairs' = Append(mePairs, [c1 |-> pair[1], c2 |-> pair[2], skipped |-> FALSE])
           /\ mixedEventMultCont' =
                 IF conf.cfgProcessPM
                 THEN mixedEventMultCont
                      \o doMixedEvent(partsOne(pair[1]), partsTwo(pair[2]), multiplicityCol)
                 ELSE mixedEventMultCont
           /\ mixedEventMultContPP' =
                 IF conf.cfgProcessPP
                 THEN mixedEventMultContPP
                      \o doMixedEvent(partsOne(pair[1]), partsOne(pair[2]), multiplicityCol)
                 ELSE mixedEventMultContPP
           /\ mixedEventMultContMM' =
                 IF conf.cfgProcessMM
                 THEN mixedEventMultContMM
                      \o doMixedEvent(partsTwo(pair[1]), partsTwo(pair[2]), multiplicityCol)
                 ELSE mixedEventMultContMM

MixedEventEnd ==
    /\ pc = "mixed"
    /\ combIter = <<>>
    /\ pc' = "done"
    /\ UNCHANGED <<conf, fdCollisions, cols, combIter, mePairs, hMECollisionBins, hSECollisionBins,
                   mixedEventMultCont, mixedEventMultContPP, mixedEventMultContMM,
                   seCol, pidCall, evParts, sePairs, sameConts, covCalls>>

processMixedEvent == MixedEventSkip \/ MixedEventFill \/ MixedEventEnd

(***************************************************************************)
(* Input data.                                                             *)
(***************************************************************************)
Collision(z, mult, field) ==
    [posZ |-> z, multNtr |-> mult, magField |-> field, multV0M |-> 100]

\* Filter collV0Mfilter
collV0Mfilter(col) == col.multV0M > ConfV0MLow /\ col.multV0M < ConfV0MHigh

\* Collisions of two bins, of both field polarities, and outside the binned range.
CollisionKinds ==
    { Collision(-2, 1, 5), Collision(-2, 1, -5), Collision(2, 3, 5),
      Collision(3, 3, 5), Collision(-2, 4, 5) }

WindowKinds == { Collision(-2, 1, 5), Collision(-2, 1, -5), Collision(2, 3, 5) }

Tables(kinds, n) == UNION { [1..k -> kinds] : k \in 0..n }

ChannelConfs ==
    { [DefaultConf EXCEPT !.cfgProcessPM = pm, !.cfgProcessPP = pp, !.cfgProcessMM = mm] :
          pm \in BOOLEAN, pp \in BOOLEAN, mm \in BOOLEAN }

MixDepthConfs == { [DefaultConf EXCEPT !.ConfNEventsMix = n] : n \in {2, 7} }

NoCall == [made |-> FALSE]

\* The histograms and containers right after init().
InitOutputs ==
    /\ mePairs = <<>>
    /\ hMECollisionBins = <<>>
    /\ hSECollisionBins = <<>>
    /\ mixedEventMultCont = <<>>
    /\ mixedEventMultContPP = <<>>
    /\ mixedEventMultContMM = <<>>
    /\ seCol = 1
    /\ pidCall = NoCall
    /\ sePairs = <<>>
    /\ sameEventMultCont = <<>>
    /\ sameEventMultContPP = <<>>
    /\ sameEventMultContMM = <<>>
    /\ covCalls = <<>>

InitMixed ==
    /\ pc = "mixed"
    /\ combIter = selfCombinations(cols)
    /\ InitOutputs

Init ==
    /\ conf \in ChannelConfs
    /\ cols \in Tables(CollisionKinds, NumCols)
    /\ fdCollisions = cols
    /\ evParts = DefaultParts
    /\ InitMixed

InitWindow ==
    /\ conf \in MixDepthConfs
    /\ cols \in Tables(WindowKinds, NumColsWindow)
    /\ fdCollisions = cols
    /\ evParts = DefaultParts
    /\ InitMixed

Next == processMixedEvent

Spec == Init /\ [][Next]_vars

SpecWindow == InitWindow /\ [][Next]_vars

(***************************************************************************)
(* fillCollision, called by processSameEvent for each collision.           *)
(***************************************************************************)
fillCollision ==
    /\ pc = "same"
    /\ seCol <= Len(cols)
    /\ hSECollisionBins' = Append(hSECollisionBins,
                                  getBin(cols[seCol].posZ, cols[seCol].multNtr))
    /\ seCol' = seCol + 1
    /\ UNCHANGED <<conf, fdCollisions, cols, pc, combIter, mePairs, hMECollisionBins,
                   mixedEventMultCont, mixedEventMultContPP, mixedEventMultContMM, pidCall,
                   evParts, sePairs, sameConts, covCalls>>

\* Two collisions anywhere on a grid that reaches beyond the edges of both axes.
GridCollisions ==
    { Collision(z, mult, 5) : z \in (0 - ZMax)..ZMax, mult \in 0..MultMax }

InitBin ==
    /\ conf = DefaultConf
    /\ cols \in [1..2 -> GridCollisions]
    /\ fdCollisions = cols
    /\ evParts = DefaultParts
    /\ pc = "same"
    /\ combIter = <<>>
    /\ InitOutputs

NextBin == fillCollision

SpecBin == InitBin /\ [][NextBin]_vars

(***************************************************************************)
(* One call of IsParticleNSigma.                                           *)
(***************************************************************************)
Species == {"Proton", "Pion", "Kaon"}

\* The n-sigma values of a track: (tpc, tof) for species sp, far off for the other two.
\* A track without a TOF signal (hasTOF false) carries whatever TOF n-sigma the particle
\* table stores for it; IsParticleNSigma is not given the flag.
NSigmaFor(sp, v) == [s \in Species |-> IF s = sp THEN v ELSE MaxNs]

CallIsParticleNSigma ==
    /\ pc = "pid"
    /\ pc' = "done"
    /\ \E particle_number \in 1..3, mom \in 0..MaxMom, sp \in Species, hasTOF \in BOOLEAN,
          tpc \in (0 - MaxNs)..MaxNs, tof \in (0 - MaxNs)..MaxNs :
          pidCall' =
              [made |-> TRUE, particle_number |-> particle_number, mom |-> mom,
               hasTOF |-> hasTOF,
               nsigmaTPC |-> NSigmaFor(sp, tpc), nsigmaTOF |-> NSigmaFor(sp, tof),
               result |-> IsParticleNSigma(particle_number, mom,
                                           NSigmaFor(sp, tpc).Proton, NSigmaFor(sp, tof).Proton,
                                           NSigmaFor(sp, tpc).Pion, NSigmaFor(sp, tof).Pion,
                                           NSigmaFor(sp, tpc).Kaon, NSigmaFor(sp, tof).Kaon),
               fatal |-> IsParticleNSigmaFatal(particle_number)]
    /\ UNCHANGED <<conf, fdCollisions, cols, combIter, mePairs, hMECollisionBins, hSECollisionBins,
                   mixedEventMultCont, mixedEventMultContPP, mixedEventMultContMM, seCol,
                   evParts, sePairs, sameConts, covCalls>>

PDGCodes == {2212, -2212, 211, -211, 321, -321, 11}

\* Every species code for one role beside the default of the other, with the default
\* cuts; and other cut values for each species.
PIDConfs ==
    { [DefaultConf EXCEPT !.ConfPDGCodePartOne = c] : c \in PDGCodes }
    \cup { [DefaultConf EXCEPT !.ConfPDGCodePartTwo = c] : c \in PDGCodes }
    \cup { [DefaultConf EXCEPT !.ConfPDGCodePartOne = c, !.ConfPDGCodePartTwo = c,
                               !.ConfTOFPtMin = 20, !.ConfNsigmaTPC = 2,
                               !.ConfNsigmaCombined = 4] : c \in {2212, 211, 321} }

InitPID ==
    /\ conf \in PIDConfs
    /\ cols = <<>>
    /\ fdCollisions = cols
    /\ evParts = DefaultParts
    /\ pc = "pid"
    /\ combIter = <<>>
    /\ InitOutputs

NextPID == CallIsParticleNSigma

SpecPID == InitPID /\ [][NextPID]_vars

(***************************************************************************)
(* One data frame: processSameEvent for each collision, then processCov    *)
(* for each collision, then processMixedEvent on the whole table (the      *)
(* order in which the process functions are declared).                     *)
(***************************************************************************)
\* Mutant of cfgProcess: every channel switched on.
cfgProcessAlways(ContType) == TRUE

\* The switch of the channel of a ContType.
cfgProcess(ContType) ==
    IF ContType = 1 THEN conf.cfgProcessPM
    ELSE IF ContType = 2 THEN conf.cfgProcessPP
    ELSE conf.cfgProcessMM

processSameEvent ==
    /\ pc = "same"
    /\ seCol <= Len(cols)
    /\ LET col == cols[seCol]
           thegroupPartsOne == partsOne(seCol)
           thegroupPartsTwo == partsTwo(seCol)
       IN  /\ hSECollisionBins' = Append(hSECollisionBins, getBin(col.posZ, col.multNtr))
           /\ \E drawsPP \in [1..Len(SameEventKept(thegroupPartsOne, thegroupPartsOne, 2))
                                 -> RandValues],
                  drawsMM \in [1..Len(SameEventKept(thegroupPartsTwo, thegroupPartsTwo, 3))
                                 -> RandValues] :
                  /\ sameEventMultCont' =
                        IF cfgProcess(1)
                        THEN sameEventMultCont
                             \o doSameEvent(thegroupPartsOne, thegroupPartsTwo,
                                            col.multNtr, 1, << >>)
                        ELSE sameEventMultCont
                  /\ sameEventMultContPP' =
                        IF cfgProcess(2)
                        THEN sameEventMultContPP
                             \o doSameEvent(thegroupPartsOne, thegroupPartsOne,
                                            col.multNtr, 2, drawsPP)
                        ELSE sameEventMultContPP
                  /\ sameEventMultContMM' =
                        IF cfgProcess(3)
                        THEN sameEventMultContMM
                             \o doSameEvent(thegroupPartsTwo, thegroupPartsTwo,
                                            col.multNtr, 3, drawsMM)
                        ELSE sameEventMultContMM
           /\ sePairs' =
                 sePairs
                 \o (IF cfgProcess(1)
                     THEN SameEventVisits(seCol, thegroupPartsOne, thegroupPartsTwo, 1)
                     ELSE << >>)
                 \o (IF cfgProcess(2)
                     THEN SameEventVisits(seCol, thegroupPartsOne, thegroupPartsOne, 2)
                     ELSE << >>)
                 \o (IF cfgProcess(3)
                     THEN SameEventVisits(seCol, thegroupPartsTwo, thegroupPartsTwo, 3)
                     ELSE << >>)
    /\ seCol' = seCol + 1
    /\ UNCHANGED <<conf, fdCollisions, cols, pc, combIter, mePairs, hMECollisionBins, mixedConts,
                   pidCall, evParts, covCalls>>

\* One fill_mult_kT_Cov call.
CovFill(container, eventType) ==
    [container |-> container, eventType |-> eventType,
     JMax |-> (ConfLMax + 1) * (ConfLMax + 1)]

processCov ==
    /\ pc = "cov"
    /\ seCol <= Len(cols)
    /\ covCalls' =
          Append(covCalls,
                 [col |-> seCol,
                  fills |->
                      IF conf.cfgProcessMM
                      THEN << CovFill("sameEventMultContMM", "same"),
                              CovFill("mixedEventMultContMM", "mixed") >>
                      ELSE IF conf.cfgProcessPP
                      THEN << CovFill("sameEventMultContPP", "same"),
                              CovFill("mixedEventMultContPP", "mixed") >>
                      ELSE IF conf.cfgProcessPM
                      THEN << CovFill("sameEventMultCont", "same"),
                              CovFill("mixedEventMultCont", "mixed") >>
                      ELSE << >>])
    /\ seCol' = seCol + 1
    /\ UNCHANGED <<conf, fdCollisions, cols, pc, combIter, mePairs, hMECollisionBins, hSECollisionBins,
                   mixedConts, pidCall, evParts, sePairs, sameConts>>

\* The framework goes on to the next process function of the data frame once the
\* running per-collision one has been given every collision.
NextProcessFunction ==
    /\ seCol > Len(cols)
    /\ \/ pc = "same" /\ pc' = "cov" /\ seCol' = 1
       \/ pc = "cov" /\ pc' = "mixed" /\ seCol' = seCol
    /\ UNCHANGED <<conf, fdCollisions, cols, combIter, mePairs, hMECollisionBins, hSECollisionBins,
                   mixedConts, pidCall, evParts, sePairs, sameConts, covCalls>>

\* Collisions of one bin, of both field polarities.
FrameKinds == { Collision(-2, 1, 5), Collision(-2, 1, -5) }

InitFrame ==
    /\ conf \in ChannelConfs
    /\ cols \in Tables(FrameKinds, NumColsFrame)
    /\ fdCollisions = cols
    /\ evParts \in SUBSET FrameParts
    /\ pc = "same"
    /\ combIter = selfCombinations(cols)
    /\ InitOutputs

NextFrame == processSameEvent \/ processCov \/ NextProcessFunction \/ processMixedEvent

SpecFrame == InitFrame /\ [][NextFrame]_vars

(***************************************************************************)
(* Two calls of IsParticleNSigma on one track, at the momentum just below  *)
(* ConfTOFPtMin and at ConfTOFPtMin.                                       *)
(***************************************************************************)
CallAcrossTOFPtMin ==
    /\ pc = "boundary"
    /\ pc' = "done"
    /\ \E particle_number \in 1..2, sp \in Species,
          tpc \in (0 - MaxNs)..MaxNs, tof \in (0 - MaxNs)..MaxNs :
          pidCall' =
              [made |-> TRUE, particle_number |-> particle_number,
               nsigmaTPC |-> NSigmaFor(sp, tpc), nsigmaTOF |-> NSigmaFor(sp, tof),
               below |-> IsParticleNSigma(particle_number, conf.ConfTOFPtMin - 1,
                                          NSigmaFor(sp, tpc).Proton, NSigmaFor(sp, tof).Proton,
                                          NSigmaFor(sp, tpc).Pion, NSigmaFor(sp, tof).Pion,
                                          NSigmaFor(sp, tpc).Kaon, NSigmaFor(sp, tof).Kaon),
               at |-> IsParticleNSigma(particle_number, conf.ConfTOFPtMin,
                                       NSigmaFor(sp, tpc).Proton, NSigmaFor(sp, tof).Proton,
                                       NSigmaFor(sp, tpc).Pion, NSigmaFor(sp, tof).Pion,
                                       NSigmaFor(sp, tpc).Kaon, NSigmaFor(sp, tof).Kaon)]
    /\ UNCHANGED <<conf, fdCollisions, cols, combIter, mePairs, hMECollisionBins, hSECollisionBins,
                   mixedEventMultCont, mixedEventMultContPP, mixedEventMultContMM, seCol,
                   evParts, sePairs, sameConts, covCalls>>

InitBoundary ==
    /\ conf \in PIDConfs
    /\ cols = <<>>
    /\ fdCollisions = cols
    /\ evParts = DefaultParts
    /\ pc = "boundary"
    /\ combIter = <<>>
    /\ InitOutputs

NextBoundary == CallAcrossTOFPtMin

SpecBoundary == InitBoundary /\ [][NextBoundary]_vars

(***************************************************************************)
(* One data frame under other configurations: every combination of the     *)
(* channel switches and cfgProcessKtMt3DCF, other values of ConfLMax,      *)
(* different species codes for the two roles, a close-pair window; with    *)
(* collisions on the limits of the event filter and tracks on the limits   *)
(* of the partitions.                                                      *)
(***************************************************************************)
\* The containers init() initialises, each with the maximum order it is given.
init ==
    LET names(on, plain, mult) ==
            IF on THEN (IF ~conf.cfgProcessKtMt3DCF THEN plain ELSE mult) ELSE {}
        initialised ==
            names(conf.cfgProcessPM, {"sameEventCont", "mixedEventCont"},
                  {"sameEventMultCont", "mixedEventMultCont"})
            \cup names(conf.cfgProcessPP, {"sameEventContPP", "mixedEventContPP"},
                       {"sameEventMultContPP", "mixedEventMultContPP"})
            \cup names(conf.cfgProcessMM, {"sameEventContMM", "mixedEventContMM"},
                       {"sameEventMultContMM", "mixedEventMultContMM"})
    IN  [c \in initialised |-> ConfLMax]

ConfigConfs ==
    { [DefaultConf EXCEPT !.cfgProcessPM = pm, !.cfgProcessPP = pp, !.cfgProcessMM = mm,
                          !.cfgProcessKtMt3DCF = kt] :
          pm \in BOOLEAN, pp \in BOOLEAN, mm \in BOOLEAN, kt \in BOOLEAN }
    \cup { [DefaultConf EXCEPT !.ConfLMax = l] : l \in {1, 3} }
    \cup { [DefaultConf EXCEPT !.cfgProcessPM = TRUE, !.ConfPDGCodePartOne = 2212] }
    \cup { [DefaultConf EXCEPT !.cfgProcessPM = TRUE, !.ConfIsCPR = cpr,
                               !.ConfCPRdeltaPhiCutMin = -2, !.ConfCPRdeltaPhiCutMax = 2,
                               !.ConfCPRdeltaEtaCutMin = -6, !.ConfCPRdeltaEtaCutMax = 6] :
              cpr \in BOOLEAN }

\* Collisions of one bin: of two field values of one polarity, and with the V0M
\* multiplicity on the low and on the high limit of the event filter.
ConfigKinds ==
    { Collision(-2, 1, 5), Collision(-2, 1, 2),
      [Collision(-2, 1, 5) EXCEPT !.multV0M = ConfV0MLow],
      [Collision(-2, 1, 5) EXCEPT !.multV0M = ConfV0MHigh] }

InitConfig ==
    /\ conf \in ConfigConfs
    /\ fdCollisions \in Tables(ConfigKinds, NumColsConfig)
    /\ cols = SelectSeq(fdCollisions, collV0Mfilter)
    /\ evParts \in {FrameParts, DOMAIN TrackParts}
    /\ pc = "same"
    /\ combIter = selfCombinations(cols)
    /\ InitOutputs

SpecConfig == InitConfig /\ [][NextFrame]_vars

(***************************************************************************)
(* One data frame with the Monte-Carlo process functions switched on       *)
(* instead: processSameEventMC for each row of FDCollisions, then          *)
(* processMixedEventMC on the whole table. Both subscribe to the table     *)
(* without the event filter.                                               *)
(***************************************************************************)
\* Mutant of processSameEventMC: the slices paired and filled as processSameEvent does
\* for the positive same-sign channel.
processSameEventMCWithPairs ==
    /\ pc = "sameMC"
    /\ seCol <= Len(fdCollisions)
    /\ hSECollisionBins' = Append(hSECollisionBins,
                                  getBin(fdCollisions[seCol].posZ, fdCollisions[seCol].multNtr))
    /\ sameEventMultContPP' =
          sameEventMultContPP
          \o doSameEvent(partsOne(seCol), partsOne(seCol), fdCollisions[seCol].multNtr, 2,
                         [n \in 1..Len(SameEventKept(partsOne(seCol), partsOne(seCol), 2))
                              |-> 3])
    /\ seCol' = seCol + 1
    /\ UNCHANGED <<conf, fdCollisions, cols, pc, combIter, mePairs, hMECollisionBins,
                   mixedConts, pidCall, evParts, sePairs, sameEventMultCont,
                   sameEventMultContMM, covCalls>>

\* fillCollision(col); the two slices are taken and not used.
processSameEventMC ==
    /\ pc = "sameMC"
    /\ seCol <= Len(fdCollisions)
    /\ hSECollisionBins' = Append(hSECollisionBins,
                                  getBin(fdCollisions[seCol].posZ, fdCollisions[seCol].multNtr))
    /\ seCol' = seCol + 1
    /\ UNCHANGED <<conf, fdCollisions, cols, pc, combIter, mePairs, hMECollisionBins,
                   mixedConts, pidCall, evParts, sePairs, sameConts, covCalls>>

\* One iteration of the loop of processMixedEventMC: the histogram fill and the
\* magnetic-field test, after which the body is empty.
MixedEventMCStep ==
    /\ pc = "mixedMC"
    /\ combIter # <<>>
    /\ LET pair == Head(combIter)
       IN  /\ hMECollisionBins' =
                  Append(hMECollisionBins,
                         getBin(fdCollisions[pair[1]].posZ, fdCollisions[pair[1]].multNtr))
           /\ mePairs' =
                  Append(mePairs,
                         [c1 |-> pair[1], c2 |-> pair[2],
                          skipped |-> magFieldDiffers(fdCollisions[pair[1]],
                                                      fdCollisions[pair[2]])])
    /\ combIter' = Tail(combIter)
    /\ UNCHANGED <<conf, fdCollisions, cols, pc, hSECollisionBins, mixedConts, seCol,
                   pidCall, evParts, sePairs, sameConts, covCalls>>

MixedEventMCEnd ==
    /\ pc = "mixedMC"
    /\ combIter = <<>>
    /\ pc' = "done"
    /\ UNCHANGED <<conf, fdCollisions, cols, combIter, mePairs, hMECollisionBins,
                   hSECollisionBins, mixedConts, seCol, pidCall, evParts, sePairs,
                   sameConts, covCalls>>

processMixedEventMC == MixedEventMCStep \/ MixedEventMCEnd

\* The framework goes on to processMixedEventMC once processSameEventMC has been given
\* every row.
NextProcessFunctionMC ==
    /\ pc = "sameMC"
    /\ seCol > Len(fdCollisions)
    /\ pc' = "mixedMC"
    /\ UNCHANGED <<conf, fdCollisions, cols, combIter, mePairs, hMECollisionBins,
                   hSECollisionBins, mixedConts, seCol, pidCall, evParts, sePairs,
                   sameConts, covCalls>>

InitMC ==
    /\ conf \in ChannelConfs
    /\ fdCollisions \in Tables(ConfigKinds, NumColsMC)
    /\ cols = SelectSeq(fdCollisions, collV0Mfilter)
    /\ evParts \in {DefaultParts, FrameParts}
    /\ pc = "sameMC"
    /\ combIter = selfCombinations(fdCollisions)
    /\ InitOutputs

NextMC == processSameEventMC \/ NextProcessFunctionMC \/ processMixedEventMC

SpecMC == InitMC /\ [][NextMC]_vars

(***************************************************************************)
(* Properties.                                                             *)
(***************************************************************************)
Rows == 1..Len(cols)

\* The rows before e that are in the bin of e, in table order.
PriorRows(e) == SelectSeq([i \in 1..(e - 1) |-> i], LAMBDA i : colBin(cols[i]) = colBin(cols[e]))

\* The earlier rows the iterator has delivered together with e.
Partners(e) == { i \in 1..(e - 1) : \E n \in DOMAIN mePairs : mePairs[n].c1 = i /\ mePairs[n].c2 = e }

\* The later rows the iterator has delivered together with e.
Followers(e) == { j \in Rows : \E n \in DOMAIN mePairs : mePairs[n].c1 = e /\ mePairs[n].c2 = j }

LastOf(seq, n) == { seq[k] : k \in (Len(seq) - Min(n, Len(seq)) + 1)..Len(seq) }

Delivered(e) == \E n \in DOMAIN mePairs : mePairs[n].c1 = e \/ mePairs[n].c2 = e

AllMixedFills == mixedEventMultCont \o mixedEventMultContPP \o mixedEventMultContMM

\* C1: an event is never mixed with more than ConfNEventsMix events of its bin,
\* neither with more than that many earlier ones nor with more than that many later ones.
C1_WindowWithinConfNEventsMix ==
    \A e \in Rows :
        /\ Cardinality(Partners(e)) <= conf.ConfNEventsMix
        /\ Cardinality(Followers(e)) <= conf.ConfNEventsMix

\* C2: once the table is processed, an event with more than ConfNEventsMix earlier
\* events in its bin has been paired with exactly the ConfNEventsMix latest of them.
C2_PairedWithLatestConfNEventsMix ==
    pc = "done" =>
        \A e \in Rows :
            (colBin(cols[e]) # -1 /\ Len(PriorRows(e)) > conf.ConfNEventsMix)
                => Partners(e) = LastOf(PriorRows(e), conf.ConfNEventsMix)

\* C3: every delivered event pair is two different collisions of one and the same bin,
\* and every mixed-event fill has its two particles in two different collisions.
C3_PairsDistinctSameBin ==
    /\ \A n \in DOMAIN mePairs :
           /\ mePairs[n].c1 # mePairs[n].c2
           /\ getBin(cols[mePairs[n].c1].posZ, cols[mePairs[n].c1].multNtr)
                = getBin(cols[mePairs[n].c2].posZ, cols[mePairs[n].c2].multNtr)
    /\ \A n \in DOMAIN AllMixedFills : AllMixedFills[n].p1.col # AllMixedFills[n].p2.col

\* Witness of C3: a processed table with pairs delivered in two different bins and with fills.
C3_Witness ==
    /\ pc = "done"
    /\ \E n, m \in DOMAIN mePairs : colBin(cols[mePairs[n].c1]) # colBin(cols[mePairs[m].c1])
    /\ AllMixedFills # <<>>

\* C4: a step of the mixing loop on an event pair whose magnetic fields differ leaves
\* every mixed-event container as it was, and the loop goes on with the next pair.
C4_FieldMismatchSkipsPair ==
    [][ ( /\ pc = "mixed"
          /\ combIter # <<>>
          /\ cols[Head(combIter)[1]].magField # cols[Head(combIter)[2]].magField )
        => ( /\ mixedEventMultCont' = mixedEventMultCont
             /\ mixedEventMultContPP' = mixedEventMultContPP
             /\ mixedEventMultContMM' = mixedEventMultContMM
             /\ pc' = "mixed"
             /\ combIter' = Tail(combIter) ) ]_vars

\* Witness of C4: a pair with differing fields was skipped with every channel switched
\* on, and the pair after it was filled.
C4_Witness ==
    /\ conf.cfgProcessPM /\ conf.cfgProcessPP /\ conf.cfgProcessMM
    /\ \E n \in DOMAIN mePairs :
           /\ cols[mePairs[n].c1].magField # cols[mePairs[n].c2].magField
           /\ mePairs[n].skipped
           /\ n + 1 \in DOMAIN mePairs
           /\ ~mePairs[n + 1].skipped
    /\ mixedEventMultCont # <<>> /\ mixedEventMultContPP # <<>> /\ mixedEventMultContMM # <<>>

\* C5: once the table is processed, an event with fewer than ConfNEventsMix earlier
\* events in its bin has been paired with every one of them.
C5_UnderfillPairsAllPriors ==
    pc = "done" =>
        \A e \in Rows :
            (colBin(cols[e]) # -1 /\ Len(PriorRows(e)) < conf.ConfNEventsMix)
                => Partners(e) = LastOf(PriorRows(e), Len(PriorRows(e)))

\* The interval of one axis that holds v, counted by the edges at or below v: 0 below
\* the first edge, Len(edges) at or above the last one.
EdgesBelow(edges, v) == Cardinality({ k \in DOMAIN edges : edges[k] <= v })

InsideAxis(edges, v) == edges[1] <= v /\ v < edges[Len(edges)]

InsideEdges(col) == InsideAxis(ConfVtxBins, col.posZ) /\ InsideAxis(ConfMultBins, col.multNtr)

NVtxBins == Len(ConfVtxBins) - 1

\* C6 as stated: two collisions get the same bin id exactly when they are in the same
\* vertex-z interval and in the same multiplicity interval.
C6_SameIdIffSameIntervals ==
    Len(hSECollisionBins) = 2 =>
        ( hSECollisionBins[1] = hSECollisionBins[2]
          <=> ( /\ EdgesBelow(ConfVtxBins, cols[1].posZ) = EdgesBelow(ConfVtxBins, cols[2].posZ)
                /\ EdgesBelow(ConfMultBins, cols[1].multNtr)
                     = EdgesBelow(ConfMultBins, cols[2].multNtr) ) )

\* C6 amended: a collision inside the edges of both axes gets the id
\* zInterval + multInterval * (number of z intervals), two such collisions get the same
\* id exactly when they share both intervals, and every collision outside the edges of
\* either axis gets the one id -1.
C6_RowMajorInsideEdges ==
    /\ \A n \in DOMAIN hSECollisionBins :
           hSECollisionBins[n] =
               IF InsideEdges(cols[n])
               THEN (EdgesBelow(ConfVtxBins, cols[n].posZ) - 1)
                    + (EdgesBelow(ConfMultBins, cols[n].multNtr) - 1) * NVtxBins
               ELSE -1
    /\ \A n, m \in DOMAIN hSECollisionBins :
           (InsideEdges(cols[n]) /\ InsideEdges(cols[m])) =>
               ( hSECollisionBins[n] = hSECollisionBins[m]
                 <=> ( /\ EdgesBelow(ConfVtxBins, cols[n].posZ)
                            = EdgesBelow(ConfVtxBins, cols[m].posZ)
                       /\ EdgesBelow(ConfMultBins, cols[n].multNtr)
                            = EdgesBelow(ConfMultBins, cols[m].multNtr) ) )

\* Witness of C6: two different collisions inside the edges filled with the same id, in
\* the last z interval and the last multiplicity interval.
C6_Witness ==
    /\ Len(hSECollisionBins) = 2
    /\ cols[1] # cols[2]
    /\ InsideEdges(cols[1]) /\ InsideEdges(cols[2])
    /\ hSECollisionBins[1] = hSECollisionBins[2]
    /\ hSECollisionBins[1] = NVtxBins * (Len(ConfMultBins) - 1) - 1

\* The bin a clamping policy would give: each axis value moved to the nearest edge interval.
ClampedAxis(edges, v) ==
    IF v < edges[1] THEN 0
    ELSE IF v >= edges[Len(edges)] THEN Len(edges) - 2
    ELSE EdgesBelow(edges, v) - 1

ClampedBin(col) ==
    ClampedAxis(ConfVtxBins, col.posZ) + ClampedAxis(ConfMultBins, col.multNtr) * NVtxBins

\* C7 as stated: a collision outside the edges is binned in the nearest edge bin and,
\* once the table is processed, has been mixed whenever another collision shares that bin.
C7_OutOfRangeClamped ==
    pc = "done" =>
        \A e \in Rows :
            ~InsideEdges(cols[e]) =>
                /\ colBin(cols[e]) = ClampedBin(cols[e])
                /\ (\E f \in Rows \ {e} : ClampedBin(cols[f]) = ClampedBin(cols[e]))
                       => Delivered(e)

\* C7 amended: a collision whose vertex z or multiplicity is outside the edges (below the
\* first edge, or at or above the last one) gets bin -1 and is dropped from mixing: it is
\* in no delivered event pair and none of its particles is in a mixed-event fill.
C7_OutOfRangeDropped ==
    \A e \in Rows :
        ~InsideEdges(cols[e]) =>
            /\ getBin(cols[e].posZ, cols[e].multNtr) = -1
            /\ ~Delivered(e)
            /\ \A n \in DOMAIN AllMixedFills :
                   AllMixedFills[n].p1.col # e /\ AllMixedFills[n].p2.col # e

\* Witness of C7: a processed table in which a collision outside the edges has another
\* collision in its nearest edge bin, and in which other pairs were mixed.
C7_Witness ==
    /\ pc = "done"
    /\ AllMixedFills # <<>>
    /\ \E e \in Rows :
           /\ ~InsideEdges(cols[e])
           /\ \E f \in Rows \ {e} : InsideEdges(cols[f]) /\ ClampedBin(cols[f]) = ClampedBin(cols[e])

\* The species code configured for the role of the call.
CallCode ==
    IF pidCall.particle_number = 1 THEN conf.ConfPDGCodePartOne ELSE conf.ConfPDGCodePartTwo

CallMade == pidCall.made /\ pidCall.particle_number \in {1, 2}

\* C8: for the proton and pion codes the call admits iff |nSigmaTPC| < ConfNsigmaTPC when
\* mom < ConfTOFPtMin, and iff nSigmaTPC^2 + nSigmaTOF^2 < ConfNsigmaCombined^2 when
\* mom >= ConfTOFPtMin, with the n-sigma values of that species.
C8_TwoRegionRule ==
    (CallMade /\ CallCode \in {2212, -2212, 211, -211}) =>
        LET sp == IF CallCode \in {2212, -2212} THEN "Proton" ELSE "Pion"
            tpc == pidCall.nsigmaTPC[sp]
            tof == pidCall.nsigmaTOF[sp]
        IN  pidCall.result =
                IF pidCall.mom < conf.ConfTOFPtMin
                THEN (0 - conf.ConfNsigmaTPC) < tpc /\ tpc < conf.ConfNsigmaTPC
                ELSE tpc * tpc + tof * tof < conf.ConfNsigmaCombined * conf.ConfNsigmaCombined

\* Witness of C8: a proton at mom = ConfTOFPtMin admitted by the combined cut although
\* its |nSigmaTPC| is not below ConfNsigmaTPC.
C8_Witness ==
    /\ CallMade
    /\ CallCode = 2212
    /\ pidCall.mom = conf.ConfTOFPtMin
    /\ Abs(pidCall.nsigmaTPC.Proton) >= conf.ConfNsigmaTPC
    /\ pidCall.result

\* C9: for the kaon codes the call admits by five momentum bands with fixed cuts, whatever
\* ConfTOFPtMin, ConfNsigmaTPC and ConfNsigmaCombined are.
C9_KaonBands ==
    (CallMade /\ CallCode \in {321, -321}) =>
        LET mom == pidCall.mom
            tpc == Abs(pidCall.nsigmaTPC.Kaon)
            tof == Abs(pidCall.nsigmaTOF.Kaon)
        IN  pidCall.result =
                ( \/ mom < 6 /\ tpc < 3
                  \/ 6 <= mom /\ mom < 9 /\ tpc < 2
                  \/ 9 <= mom /\ mom < 11 /\ tpc < 1
                  \/ 11 <= mom /\ mom < 30 /\ tof < 3 /\ tpc < 3
                  \/ 30 < mom /\ tof < 2 /\ tpc < 3 )

\* Witness of C9: with cuts other than the defaults, a kaon at mom = 0.5 with
\* |nSigmaTPC| = 1 is rejected.
C9_Witness ==
    /\ CallMade
    /\ CallCode = 321
    /\ conf.ConfTOFPtMin # 10 /\ conf.ConfNsigmaTPC # 3 /\ conf.ConfNsigmaCombined # 3
    /\ pidCall.mom = 10
    /\ pidCall.nsigmaTPC.Kaon = 1
    /\ ~pidCall.result

\* C10: for role 1 and for role 2, a call with a species code other than +-2212, +-211,
\* +-321 configured for the role returns false.
C10_UnknownSpeciesRejected ==
    (CallMade /\ CallCode \notin {2212, -2212, 211, -211, 321, -321}) => ~pidCall.result

\* Witness of C10: a role-2 call under an unknown code, for a track every species rule
\* would admit on its own n-sigma values, returns false.
C10_Witness ==
    /\ CallMade
    /\ pidCall.particle_number = 2
    /\ conf.ConfPDGCodePartTwo = 11
    /\ pidCall.nsigmaTPC.Pion = 0 /\ pidCall.nsigmaTOF.Pion = 0
    /\ ~pidCall.result

SupportedCodes == {2212, -2212, 211, -211, 321, -321}

\* C11: a call of the PID dispatch with a role index other than 1 or 2, and a call with
\* a species code outside the supported ones configured for its role, each end in the
\* fatal error state.
C11_ConfigErrorsFatal ==
    pidCall.made =>
        ( ( \/ pidCall.particle_number \notin {1, 2}
            \/ CallCode \notin SupportedCodes )
          => pidCall.fatal )

\* C12: for the proton and pion codes, a track without a TOF signal at
\* mom >= ConfTOFPtMin is admitted iff |nSigmaTPC| < ConfNsigmaTPC.
C12_NoTOFDecidedByTPC ==
    ( /\ CallMade
      /\ ~pidCall.hasTOF
      /\ CallCode \in {2212, -2212, 211, -211}
      /\ pidCall.mom >= conf.ConfTOFPtMin )
    => LET sp == IF CallCode \in {2212, -2212} THEN "Proton" ELSE "Pion"
       IN  pidCall.result = (Abs(pidCall.nsigmaTPC[sp]) < conf.ConfNsigmaTPC)

\* The n-sigma values of the configured species of the pair of calls across ConfTOFPtMin.
BoundaryCase == CallMade /\ CallCode \in {2212, -2212, 211, -211}

BoundarySpecies == IF CallCode \in {2212, -2212} THEN "Proton" ELSE "Pion"

\* C13 as stated: for fixed n-sigma values, a proton or pion admitted just below
\* ConfTOFPtMin is admitted at ConfTOFPtMin (one rejected at ConfTOFPtMin is not admitted
\* just below).
C13_MonotoneAtTOFPtMin ==
    BoundaryCase => (pidCall.below => pidCall.at)

\* C13 amended: admission is a function of its inputs: just below ConfTOFPtMin it is
\* |nSigmaTPC| < ConfNsigmaTPC whatever nSigmaTOF is, at ConfTOFPtMin it is
\* nSigmaTPC^2 + nSigmaTOF^2 < ConfNsigmaCombined^2. A track admitted at ConfTOFPtMin is
\* admitted just below whenever ConfNsigmaCombined <= ConfNsigmaTPC; a track admitted just
\* below is rejected at ConfTOFPtMin exactly when its combined n-sigma is not below the cut.
C13_BranchesAtTOFPtMin ==
    BoundaryCase =>
        LET tpc == pidCall.nsigmaTPC[BoundarySpecies]
            tof == pidCall.nsigmaTOF[BoundarySpecies]
            combined == tpc * tpc + tof * tof < conf.ConfNsigmaCombined * conf.ConfNsigmaCombined
        IN  /\ pidCall.below = (Abs(tpc) < conf.ConfNsigmaTPC)
            /\ pidCall.at = combined
            /\ (conf.ConfNsigmaCombined <= conf.ConfNsigmaTPC) => (pidCall.at => pidCall.below)
            /\ (pidCall.below /\ ~pidCall.at) <=> (Abs(tpc) < conf.ConfNsigmaTPC /\ ~combined)

\* Witness of C13: a pion with a small TPC n-sigma and a large TOF n-sigma, admitted just
\* below ConfTOFPtMin and rejected at ConfTOFPtMin.
C13_Witness ==
    /\ BoundaryCase
    /\ CallCode = 211
    /\ pidCall.nsigmaTPC.Pion = 0
    /\ pidCall.below
    /\ ~pidCall.at

\* The collisions processSameEvent has been given.
Processed(c) == c \in Rows /\ (pc # "same" \/ c < seCol)

\* The positions of sePairs that belong to the doSameEvent call of ContType t on collision c.
Visits(c, t) == { n \in DOMAIN sePairs : sePairs[n].col = c /\ sePairs[n].ContType = t }

Unordered(n) == {sePairs[n].p1, sePairs[n].p2}

Range(seq) == { seq[k] : k \in DOMAIN seq }

\* The visits of a strictly-upper loop over a set of size: size*(size-1)/2 of them, none
\* of a particle with itself, no unordered pair twice.
StrictUpperCount(visits, size) ==
    /\ 2 * Cardinality(visits) = size * (size - 1)
    /\ \A n \in visits : sePairs[n].p1 # sePairs[n].p2
    /\ \A n, m \in visits : n # m => Unordered(n) # Unordered(m)

\* C14: the strictly-upper loop over the N particles of a group visits exactly N*(N-1)/2
\* pairs, all different as unordered pairs and none of the form (i, i); the full loop over
\* groups of N and M particles visits exactly N*M ordered pairs, all different.
C14_GeneratorsEnumerateAll ==
    \A c \in Rows :
        Processed(c) =>
            /\ conf.cfgProcessPP => StrictUpperCount(Visits(c, 2), Len(partsOne(c)))
            /\ conf.cfgProcessMM => StrictUpperCount(Visits(c, 3), Len(partsTwo(c)))
            /\ conf.cfgProcessPM =>
                   /\ Cardinality(Visits(c, 1)) = Len(partsOne(c)) * Len(partsTwo(c))
                   /\ \A n, m \in Visits(c, 1) :
                          n # m => <<sePairs[n].p1, sePairs[n].p2>> # <<sePairs[m].p1, sePairs[m].p2>>

\* Witness of C14: a collision of three positive and two negative particles processed
\* with every channel on: 3 and 1 strictly-upper pairs, 6 full pairs.
C14_Witness ==
    /\ conf.cfgProcessPM /\ conf.cfgProcessPP /\ conf.cfgProcessMM
    /\ \E c \in Rows :
           /\ Processed(c)
           /\ Len(partsOne(c)) = 3 /\ Len(partsTwo(c)) = 2
           /\ Cardinality(Visits(c, 2)) = 3
           /\ Cardinality(Visits(c, 3)) = 1
           /\ Cardinality(Visits(c, 1)) = 6

\* The visits of a same-sign channel over the particles of one group: every two different
\* particles of the group once as an unordered pair, and nothing else.
SingleSetStrictUpper(visits, group) ==
    /\ \A n \in visits :
           /\ sePairs[n].p1 \in group /\ sePairs[n].p2 \in group
           /\ sePairs[n].p1 # sePairs[n].p2
    /\ \A a, b \in group :
           a # b => Cardinality({ n \in visits : Unordered(n) = {a, b} }) = 1

\* The fills of a same-sign container from collision c: no particle with itself, no
\* unordered pair twice.
NoSelfNoDouble(cont, c) ==
    LET own == { n \in DOMAIN cont : cont[n].p1.col = c /\ cont[n].p2.col = c }
    IN  /\ \A n \in own : cont[n].p1 # cont[n].p2
        /\ \A n, m \in own : n # m => {cont[n].p1, cont[n].p2} # {cont[m].p1, cont[m].p2}

\* C15: in same-event processing the opposite-sign channel (ContType 1) visits every
\* (role-1 particle, role-2 particle) of the collision exactly once; the same-sign channels
\* (ContType 2, 3) visit the pairs of one single group strictly-upper, so that no particle
\* is paired with itself and no unordered pair is counted twice within a collision.
C15_PolicyFollowsChannel ==
    \A c \in Rows :
        Processed(c) =>
            /\ conf.cfgProcessPM =>
                   /\ \A n \in Visits(c, 1) :
                          /\ sePairs[n].p1 \in Range(partsOne(c))
                          /\ sePairs[n].p2 \in Range(partsTwo(c))
                   /\ \A a \in Range(partsOne(c)), b \in Range(partsTwo(c)) :
                          Cardinality({ n \in Visits(c, 1) :
                                          sePairs[n].p1 = a /\ sePairs[n].p2 = b }) = 1
            /\ conf.cfgProcessPP =>
                   /\ SingleSetStrictUpper(Visits(c, 2), Range(partsOne(c)))
                   /\ NoSelfNoDouble(sameEventMultContPP, c)
            /\ conf.cfgProcessMM =>
                   /\ SingleSetStrictUpper(Visits(c, 3), Range(partsTwo(c)))
                   /\ NoSelfNoDouble(sameEventMultContMM, c)

\* Witness of C15: every channel on, a processed collision with at least two particles in
\* each role, and fills in the three same-event containers.
C15_Witness ==
    /\ conf.cfgProcessPM /\ conf.cfgProcessPP /\ conf.cfgProcessMM
    /\ \E c \in Rows :
           /\ Processed(c)
           /\ Len(partsOne(c)) >= 2 /\ Len(partsTwo(c)) >= 2
    /\ sameEventMultCont # <<>> /\ sameEventMultContPP # <<>> /\ sameEventMultContMM # <<>>

\* The fills of container cont that hold the two particles of pr, in either order.
FillsOfPair(cont, pr) ==
    { n \in DOMAIN cont : {cont[n].p1, cont[n].p2} = {pr[1], pr[2]} }

\* An accepted same-sign pair (p1, p2) has exactly one fill, in the order (p1, p2) when
\* its draw is above 0.5 and in the order (p2, p1) when it is not.
FilledOnceByDraw(cont, kept) ==
    \A k \in DOMAIN kept :
        /\ Cardinality(FillsOfPair(cont, kept[k])) = 1
        /\ \A n \in FillsOfPair(cont, kept[k]) :
               IF cont[n].rand > 2
               THEN cont[n].p1 = kept[k][1] /\ cont[n].p2 = kept[k][2]
               ELSE cont[n].p1 = kept[k][2] /\ cont[n].p2 = kept[k][1]

\* C16: every accepted same-sign pair of a processed collision is filled exactly once into
\* the same-event container of its channel, as (p1, p2) when the draw is > 0.5 and as
\* (p2, p1) when it is <= 0.5.
C16_SameSignFilledOnce ==
    \A c \in Rows :
        Processed(c) =>
            /\ conf.cfgProcessPP =>
                   FilledOnceByDraw(sameEventMultContPP,
                                    SameEventKept(partsOne(c), partsOne(c), 2))
            /\ conf.cfgProcessMM =>
                   FilledOnceByDraw(sameEventMultContMM,
                                    SameEventKept(partsTwo(c), partsTwo(c), 3))

\* Witness of C16: a pair filled as (p2, p1) on a draw of exactly 0.5 in the positive
\* channel and a pair filled as (p1, p2) on a draw above 0.5 in the negative channel.
C16_Witness ==
    /\ \E n \in DOMAIN sameEventMultContPP :
           /\ sameEventMultContPP[n].rand = 2
           /\ sameEventMultContPP[n].p1.idx > sameEventMultContPP[n].p2.idx
    /\ \E n \in DOMAIN sameEventMultContMM :
           /\ sameEventMultContMM[n].rand = 3
           /\ sameEventMultContMM[n].p1.idx < sameEventMultContMM[n].p2.idx

AllSameFills == sameEventMultCont \o sameEventMultContPP \o sameEventMultContMM

\* C18: the same-event containers hold only pairs of two particles of one collision,
\* filled while processSameEvent runs and left alone by processCov and processMixedEvent;
\* the mixed-event containers hold only pairs of particles of two different collisions
\* and are empty as long as processMixedEvent has not run.
C18_NumeratorDenominatorSeparate ==
    /\ \A n \in DOMAIN AllSameFills : AllSameFills[n].p1.col = AllSameFills[n].p2.col
    /\ \A n \in DOMAIN AllMixedFills : AllMixedFills[n].p1.col # AllMixedFills[n].p2.col
    /\ pc \in {"same", "cov"} => AllMixedFills = <<>>
    /\ \A n \in DOMAIN AllSameFills : Processed(AllSameFills[n].p1.col)

\* Witness of C18: a processed data frame with same-event fills and mixed-event fills.
C18_Witness ==
    /\ pc = "done"
    /\ AllSameFills # <<>>
    /\ AllMixedFills # <<>>
    /\ Len(AllMixedFills) # Len(AllSameFills)

\* The fills of the containers of a channel hold particles of the signs of that channel.
ChannelFills(cont, sign1, sign2) ==
    \A n \in DOMAIN cont : Part(cont[n].p1).sign = sign1 /\ Part(cont[n].p2).sign = sign2

\* C19: each container holds fills of its own channel only (positive with negative,
\* positive with positive, negative with negative), and the same-event and mixed-event
\* containers of a channel whose switch is off stay empty.
C19_ChannelsIndependent ==
    /\ ChannelFills(sameEventMultCont, ConfChargePart1, ConfChargePart2)
    /\ ChannelFills(mixedEventMultCont, ConfChargePart1, ConfChargePart2)
    /\ ChannelFills(sameEventMultContPP, ConfChargePart1, ConfChargePart1)
    /\ ChannelFills(mixedEventMultContPP, ConfChargePart1, ConfChargePart1)
    /\ ChannelFills(sameEventMultContMM, ConfChargePart2, ConfChargePart2)
    /\ ChannelFills(mixedEventMultContMM, ConfChargePart2, ConfChargePart2)
    /\ ~conf.cfgProcessPM => (sameEventMultCont = <<>> /\ mixedEventMultCont = <<>>)
    /\ ~conf.cfgProcessPP => (sameEventMultContPP = <<>> /\ mixedEventMultContPP = <<>>)
    /\ ~conf.cfgProcessMM => (sameEventMultContMM = <<>> /\ mixedEventMultContMM = <<>>)

\* Witness of C19: only the positive same-sign channel is on, the collisions hold
\* particles of both signs, and the data frame is processed with same-event and
\* mixed-event fills in that channel.
C19_Witness ==
    /\ pc = "done"
    /\ conf.cfgProcessPP /\ ~conf.cfgProcessPM /\ ~conf.cfgProcessMM
    /\ \E c \in Rows : Len(partsOne(c)) >= 2 /\ Len(partsTwo(c)) >= 2
    /\ sameEventMultContPP # <<>>
    /\ mixedEventMultContPP # <<>>

\* Whether a fill_mult_NumDen call is still to come in the data frame.
MixedFillToCome ==
    \E n \in DOMAIN combIter :
        /\ ~magFieldDiffers(cols[combIter[n][1]], cols[combIter[n][2]])
        /\ \/ conf.cfgProcessPM
              /\ doMixedEvent(partsOne(combIter[n][1]), partsTwo(combIter[n][2]), 0) # <<>>
           \/ conf.cfgProcessPP
              /\ doMixedEvent(partsOne(combIter[n][1]), partsOne(combIter[n][2]), 0) # <<>>
           \/ conf.cfgProcessMM
              /\ doMixedEvent(partsTwo(combIter[n][1]), partsTwo(combIter[n][2]), 0) # <<>>

FillsToCome == pc # "done" /\ MixedFillToCome

\* C20: processCov is called at most once in the data frame, and once it has been called
\* no same-event or mixed-event fill of the data frame is still to come.
C20_CovOnceAfterAllFills ==
    /\ Len(covCalls) <= 1
    /\ covCalls # <<>> => ~FillsToCome

\* The containers whose covariance call n of processCov computes.
CovContainers(n) == { covCalls[n].fills[k].container : k \in DOMAIN covCalls[n].fills }

\* C21: every call of processCov computes the covariance of the same-event and of the
\* mixed-event container of every channel whose switch is on.
C21_CovarianceOfEveryChannel ==
    \A n \in DOMAIN covCalls :
        /\ conf.cfgProcessPM =>
               {"sameEventMultCont", "mixedEventMultCont"} \subseteq CovContainers(n)
        /\ conf.cfgProcessPP =>
               {"sameEventMultContPP", "mixedEventMultContPP"} \subseteq CovContainers(n)
        /\ conf.cfgProcessMM =>
               {"sameEventMultContMM", "mixedEventMultContMM"} \subseteq CovContainers(n)

\* C27: under a kaon code the call returns false at mom = 1.5 whatever the n-sigma values
\* are; at every other momentum the n-sigma values decide: a kaon with both n-sigma
\* values 0 is admitted and one with |nSigmaTPC| >= 3 is rejected.
C27_KaonGapAtOnePointFive ==
    (CallMade /\ CallCode \in {321, -321}) =>
        /\ pidCall.mom = 30 => ~pidCall.result
        /\ (pidCall.mom # 30 /\ pidCall.nsigmaTPC.Kaon = 0 /\ pidCall.nsigmaTOF.Kaon = 0)
               => pidCall.result
        /\ (pidCall.mom # 30 /\ Abs(pidCall.nsigmaTPC.Kaon) >= 3) => ~pidCall.result

\* Witness of C27: a kaon at mom = 1.5 with both n-sigma values 0 is rejected.
C27_Witness ==
    /\ CallMade
    /\ CallCode = 321
    /\ pidCall.mom = 30
    /\ pidCall.nsigmaTPC.Kaon = 0 /\ pidCall.nsigmaTOF.Kaon = 0
    /\ ~pidCall.result

\* The fill_mult_NumDen calls made so far, container by container.
FillsOf ==
    [c \in {"sameEventMultCont", "sameEventMultContPP", "sameEventMultContMM",
            "mixedEventMultCont", "mixedEventMultContPP", "mixedEventMultContMM"} |->
        CASE c = "sameEventMultCont" -> sameEventMultCont
          [] c = "sameEventMultContPP" -> sameEventMultContPP
          [] c = "sameEventMultContMM" -> sameEventMultContMM
          [] c = "mixedEventMultCont" -> mixedEventMultCont
          [] c = "mixedEventMultContPP" -> mixedEventMultContPP
          [] c = "mixedEventMultContMM" -> mixedEventMultContMM]

\* C22: every same-event and every mixed-event fill is made with maximum order ConfLMax,
\* the order the containers are initialised with, and every covariance call takes
\* (ConfLMax + 1)^2 moments.
C22_FillsUseConfLMax ==
    /\ \A c \in DOMAIN FillsOf : \A n \in DOMAIN FillsOf[c] :
           /\ FillsOf[c][n].max_l_val = ConfLMax
           /\ \A i \in DOMAIN init : FillsOf[c][n].max_l_val = init[i]
    /\ \A n \in DOMAIN covCalls : \A k \in DOMAIN covCalls[n].fills :
           covCalls[n].fills[k].JMax = (ConfLMax + 1) * (ConfLMax + 1)

\* A particle that passes the admission test under the species code of one of the roles.
Admitted(ref) == PartNSigma(1, Part(ref)) \/ PartNSigma(2, Part(ref))

\* Two particles within the close-pair window, in either order.
ClosePair(ref1, ref2) ==
    isClosePair(Part(ref1), Part(ref2)) \/ isClosePair(Part(ref2), Part(ref1))

\* C23: every pair filled into a same-event or a mixed-event container has two admitted
\* particles, is not a close pair when ConfIsCPR is set, and is not made of one track
\* taken twice.
C23_PairFilterGatesEveryFill ==
    \A c \in DOMAIN FillsOf : \A n \in DOMAIN FillsOf[c] :
        LET f == FillsOf[c][n]
        IN  /\ Admitted(f.p1) /\ Admitted(f.p2)
            /\ ConfIsCPR => ~ClosePair(f.p1, f.p2)
            /\ f.p1 # f.p2

\* Witness of C23: with ConfIsCPR set, the same-event loop has visited a close pair of
\* two admitted particles, the data frame is processed, and the opposite-sign containers
\* hold same-event and mixed-event fills.
C23_Witness ==
    /\ pc = "done"
    /\ ConfIsCPR
    /\ \E n \in DOMAIN sePairs :
           /\ sePairs[n].ContType = 1
           /\ Admitted(sePairs[n].p1) /\ Admitted(sePairs[n].p2)
           /\ ClosePair(sePairs[n].p1, sePairs[n].p2)
    /\ sameEventMultCont # <<>>
    /\ mixedEventMultCont # <<>>

\* The fills of a container test its first particle under role1 and its second under
\* role2.
RoleFills(cont, role1, role2) ==
    \A n \in DOMAIN cont :
        PartNSigma(role1, Part(cont[n].p1)) /\ PartNSigma(role2, Part(cont[n].p2))

\* C25: in the same-event and in the mixed-event container of every channel, a particle
\* of the role-1 partition has passed the admission test of the role-1 species code and a
\* particle of the role-2 partition that of the role-2 species code.
C25_AdmittedUnderOwnRole ==
    /\ RoleFills(sameEventMultCont, 1, 2)
    /\ RoleFills(mixedEventMultCont, 1, 2)
    /\ RoleFills(sameEventMultContPP, 1, 1)
    /\ RoleFills(mixedEventMultContPP, 1, 1)
    /\ RoleFills(sameEventMultContMM, 2, 2)
    /\ RoleFills(mixedEventMultContMM, 2, 2)

\* C26: every container that holds a fill, and every container a covariance call names,
\* is one that init initialised.
C26_TouchedContainersInitialised ==
    /\ \A c \in DOMAIN FillsOf : FillsOf[c] # <<>> => c \in DOMAIN init
    /\ \A n \in DOMAIN covCalls : CovContainers(n) \subseteq DOMAIN init

\* C28: hMECollisionBins has one entry, the bin of collision1, for every event pair the
\* mixing loop has taken, skipped or not; a pair is skipped exactly when the two magnetic
\* fields are not equal, of one polarity or not; and every mixed-event fill pairs
\* particles of two collisions of equal magnetic field.
C28_MixedOnlyAtEqualField ==
    /\ Len(hMECollisionBins) = Len(mePairs)
    /\ \A n \in DOMAIN mePairs :
           /\ hMECollisionBins[n] =
                  getBin(cols[mePairs[n].c1].posZ, cols[mePairs[n].c1].multNtr)
           /\ mePairs[n].skipped <=>
                  cols[mePairs[n].c1].magField # cols[mePairs[n].c2].magField
    /\ \A n \in DOMAIN AllMixedFills :
           cols[AllMixedFills[n].p1.col].magField = cols[AllMixedFills[n].p2.col].magField

\* Witness of C28: two collisions of fields 5 and 2, both holding particles of a channel
\* that is on, were taken by the loop: the pair is counted in hMECollisionBins, skipped,
\* and nothing is filled.
C28_Witness ==
    /\ pc = "done"
    /\ conf.cfgProcessPP
    /\ \E n \in DOMAIN mePairs :
           /\ {cols[mePairs[n].c1].magField, cols[mePairs[n].c2].magField} = {5, 2}
           /\ mePairs[n].skipped
           /\ n \in DOMAIN hMECollisionBins
           /\ Len(partsOne(mePairs[n].c1)) >= 2
    /\ AllMixedFills = <<>>

\* A particle inside the acceptance of a role: limits excluded.
InAcceptance(ref, charge, ptLow, ptHigh) ==
    /\ Part(ref).partType = "kTrack"
    /\ Part(ref).sign = charge
    /\ Part(ref).pt > ptLow /\ Part(ref).pt < ptHigh
    /\ Part(ref).eta > 0 - ConfEtaMax /\ Part(ref).eta < ConfEtaMax

InAcceptanceOne(ref) == InAcceptance(ref, ConfChargePart1, ConfPtLowPart1, ConfPtHighPart1)

InAcceptanceTwo(ref) == InAcceptance(ref, ConfChargePart2, ConfPtLowPart2, ConfPtHighPart2)

InsideV0M(col) == ConfV0MLow < col.multV0M /\ col.multV0M < ConfV0MHigh

\* C30: every particle a pair loop visits or fills as a role-1 (role-2) candidate is a
\* track of the role's charge with pt strictly between the role's limits and
\* |eta| < ConfEtaMax; and every collision given to a process function is a row of
\* FDCollisions with V0M strictly between ConfV0MLow and ConfV0MHigh.
C30_OnlyInsideAcceptance ==
    /\ \A n \in DOMAIN sePairs :
           /\ IF sePairs[n].ContType = 3 THEN InAcceptanceTwo(sePairs[n].p1)
                                          ELSE InAcceptanceOne(sePairs[n].p1)
           /\ IF sePairs[n].ContType = 2 THEN InAcceptanceOne(sePairs[n].p2)
                                          ELSE InAcceptanceTwo(sePairs[n].p2)
    /\ \A n \in DOMAIN mixedEventMultCont :
           /\ InAcceptanceOne(mixedEventMultCont[n].p1)
           /\ InAcceptanceTwo(mixedEventMultCont[n].p2)
    /\ \A n \in DOMAIN mixedEventMultContPP :
           /\ InAcceptanceOne(mixedEventMultContPP[n].p1)
           /\ InAcceptanceOne(mixedEventMultContPP[n].p2)
    /\ \A n \in DOMAIN mixedEventMultContMM :
           /\ InAcceptanceTwo(mixedEventMultContMM[n].p1)
           /\ InAcceptanceTwo(mixedEventMultContMM[n].p2)
    /\ \A k \in DOMAIN cols : InsideV0M(cols[k])
    /\ Len(cols) <= Cardinality({ k \in DOMAIN fdCollisions : InsideV0M(fdCollisions[k]) })
    /\ Len(hSECollisionBins) <= Len(cols)
    /\ Len(covCalls) <= Len(cols)
    /\ \A n \in DOMAIN mePairs : mePairs[n].c1 \in DOMAIN cols /\ mePairs[n].c2 \in DOMAIN cols

\* Witness of C30: the collisions hold tracks on every limit of the partitions, one of
\* the two rows of FDCollisions has its V0M on a limit, and the data frame is processed
\* with the one other collision and with same-event fills in every channel.
C30_Witness ==
    /\ pc = "done"
    /\ evParts = DOMAIN TrackParts
    /\ Len(fdCollisions) = 2
    /\ \E k \in DOMAIN fdCollisions : fdCollisions[k].multV0M \in {ConfV0MLow, ConfV0MHigh}
    /\ Len(cols) = 1
    /\ Len(hSECollisionBins) = 1
    /\ sameEventMultCont # <<>> /\ sameEventMultContPP # <<>> /\ sameEventMultContMM # <<>>

\* A step of a Monte-Carlo process function: the containers and the covariance calls
\* are left as they were, and a QA histogram or the running function changes.
MCStepLeavesContainers ==
    pc \in {"sameMC", "mixedMC"} =>
        /\ UNCHANGED <<sameConts, mixedConts, covCalls>>
        /\ \/ hSECollisionBins' # hSECollisionBins
           \/ hMECollisionBins' # hMECollisionBins
           \/ pc' # pc

ContainersAsInitLeftThem ==
    AllSameFills = <<>> /\ AllMixedFills = <<>> /\ covCalls = <<>>

====
